---- MODULE Spec2Model ----
(***************************************************************************)
(* Model of the command dispatch layer of hupeh/cli: Program (registry and *)
(* dispatcher) and Command (option set and bound action).                  *)
(*                                                                         *)
(* Text is modelled as strings; an argument is a string whose characters   *)
(* are given by Chars, so that the character tests of the code (first      *)
(* character '-', "--", "name=value") are computed as the code computes    *)
(* them.  Everything written to a writer is a sequence of lines.           *)
(***************************************************************************)
EXTENDS Integers, Sequences, FiniteSets, TLC

(***************************************************************************)
(* Bounds of the exploration.                                              *)
(***************************************************************************)
\* longest argument list after argv[0]
MaxArgs == 2

(***************************************************************************)
(* Strings and their characters.                                           *)
(***************************************************************************)
\* the characters of every argument the model passes
Chars(s) ==
    CASE s = ""           -> <<>>
      [] s = "-v"         -> <<"-", "v">>
      [] s = "--version"  -> <<"-", "-", "v", "e", "r", "s", "i", "o", "n">>
      [] s = "-h"         -> <<"-", "h">>
      [] s = "--help"     -> <<"-", "-", "h", "e", "l", "p">>
      [] s = "-port"      -> <<"-", "p", "o", "r", "t">>
      [] s = "-port=3000" -> <<"-", "p", "o", "r", "t", "=", "3", "0", "0", "0">>
      [] s = "-port=9000" -> <<"-", "p", "o", "r", "t", "=", "9", "0", "0", "0">>
      [] s = "-port=nope" -> <<"-", "p", "o", "r", "t", "=", "n", "o", "p", "e">>
      [] s = "3000"       -> <<"3", "0", "0", "0">>
      [] s = "--"         -> <<"-", "-">>
      [] s = "init"       -> <<"i", "n", "i", "t">>
      [] s = "build"      -> <<"b", "u", "i", "l", "d">>
      [] s = "help"       -> <<"h", "e", "l", "p">>
      [] s = "version"    -> <<"v", "e", "r", "s", "i", "o", "n">>
      [] s = "nope"       -> <<"n", "o", "p", "e">>

RECURSIVE Join(_)
\* the string made of a sequence of characters
Join(cs) == IF cs = <<>> THEN "" ELSE Head(cs) \o Join(Tail(cs))

\* s[i:] on a sequence (0-based i, as a Go slice expression)
From(s, i) == SubSeq(s, i + 1, Len(s))

\* strconv.ParseInt as used by the int flag value: the decimal strings of the model
IsInt(s) == s \in {"3000", "9000"}

IntOf(s) == IF s = "3000" THEN 3000 ELSE IF s = "9000" THEN 9000 ELSE 0

RECURSIVE Pad(_, _)
\* fmt's %-*s: s left-justified in a field of width w
Pad(s, w) == IF Len(s) >= w THEN s ELSE Pad(s \o " ", w)

(***************************************************************************)
(* Errors.  nil is the absence of an error; an error is a record with its  *)
(* message.                                                                *)
(***************************************************************************)
nil == [kind |-> "nil"]

Errorf(msg) == [kind |-> "error", msg |-> msg]

\* flag.ErrHelp
ErrHelp == [kind |-> "error", msg |-> "flag: help requested"]

\* the error a failing writer returns from Write
ErrWrite == [kind |-> "error", msg |-> "write failed"]

(***************************************************************************)
(* Writers.  os.Stderr, a buffer that accepts every write, and a writer    *)
(* whose Write always fails having written nothing.                        *)
(***************************************************************************)
Writers == {"stderr", "buf", "bad"}

\* w.Write / fmt.Fprintf(w, ...): the lines reach w unless w fails
WriteTo(wr, w, lines) ==
    IF w = "bad"
    THEN [wr |-> wr, err |-> ErrWrite]
    ELSE [wr |-> [wr EXCEPT ![w] = @ \o lines], err |-> nil]

(***************************************************************************)
(* Commands.  A command object is identified by an id; its immutable       *)
(* fields are given by Cmd, its mutable ones (bound flag variables,        *)
(* appName, Flags output) are state.                                       *)
(***************************************************************************)
\* the flags a test registers on a command, in the lexical order of VisitAll
PortFlags ==
    << [name |-> "port", type |-> "int", def |-> 8080, usage |-> "Port number"],
       [name |-> "v", type |-> "bool", def |-> FALSE, usage |-> "Verbose"] >>

\* a command's own help flag, as a test may register it
HelpFlags ==
    << [name |-> "h", type |-> "bool", def |-> FALSE, usage |-> "Human readable"] >>

\* NewCommand(name, usage) followed by the field assignments of the caller
NewCommand(name, usage) ==
    [Name |-> name, Usage |-> usage, Description |-> "", Flags |-> <<>>,
     Action |-> "none", HideHelpFlag |-> FALSE]

DefaultHelpCommand ==
    [Name |-> "help", Usage |-> "Show help information",
     Description |-> "Display help information for commands", Flags |-> <<>>,
     Action |-> "none", HideHelpFlag |-> FALSE]

DefaultVersionCommand ==
    [Name |-> "version", Usage |-> "Show version information",
     Description |-> "Display the version of this program", Flags |-> <<>>,
     Action |-> "none", HideHelpFlag |-> FALSE]

\* the command objects of the model; Action is "ok" (returns nil), "fail"
\* (returns an error) or "none" (no action bound)
Cmd(id) ==
    CASE id = "init"     -> [NewCommand("init", "Initialize") EXCEPT
                                !.Flags = PortFlags, !.Action = "ok",
                                !.Description = "Initialize the project"]
      [] id = "init2"    -> [NewCommand("init", "Second init") EXCEPT !.Action = "ok"]
      [] id = "build"    -> [NewCommand("build", "Build") EXCEPT
                                !.Flags = PortFlags, !.Action = "fail",
                                !.HideHelpFlag = TRUE]
      [] id = "noop"     -> [NewCommand("build", "Build nothing") EXCEPT
                                !.Flags = PortFlags]
      [] id = "deploy"   -> [NewCommand("deploy", "Deploy") EXCEPT
                                !.Flags = PortFlags, !.Action = "fail"]
      [] id = "quiet"    -> [NewCommand("quiet", "Quiet") EXCEPT
                                !.Flags = HelpFlags, !.Action = "ok"]
      [] id = "uhelp"    -> [NewCommand("help", "My custom help") EXCEPT !.Action = "ok"]
      [] id = "uversion" -> [NewCommand("version", "My version") EXCEPT !.Action = "ok"]
      [] id = "chelp"    -> [NewCommand("help", "Custom help") EXCEPT !.Action = "ok"]
      [] id = "cversion" -> [NewCommand("version", "Custom version") EXCEPT !.Action = "ok"]
      [] id = "bhelp"    -> DefaultHelpCommand
      [] id = "bversion" -> DefaultVersionCommand

\* the command objects that outlive a call (the built-ins are created per lookup)
CmdIds ==
    {"init", "init2", "build", "noop", "deploy", "quiet",
     "uhelp", "uversion", "chelp", "cversion"}

AllCmdIds == CmdIds \cup {"bhelp", "bversion"}

\* the bound variables of a command as registration leaves them (the defaults)
Defaults(id) ==
    LET fs == Cmd(id).Flags
    IN  [n \in {fs[i].name : i \in DOMAIN fs} |->
            fs[CHOOSE i \in DOMAIN fs : fs[i].name = n].def]

(***************************************************************************)
(* The option parser: flag.FlagSet.Parse of the standard library with      *)
(* ContinueOnError, as Command.RunContext calls it.  The result holds the  *)
(* error, the bound variables as parsing left them, the arguments left     *)
(* over, the message failf printed ("" if none) and whether the Usage      *)
(* function was called.                                                    *)
(***************************************************************************)
\* strconv.ParseBool on the strings of the model
IsBool(s) == s \in {"true", "false"}

\* index of the first '=' of name at position >= 2, or 0
EqualsAt(name) ==
    IF \E i \in 2..Len(name) : name[i] = "="
    THEN CHOOSE i \in 2..Len(name) :
            name[i] = "=" /\ \A j \in 2..(i - 1) : name[j] # "="
    ELSE 0

\* f.formal[name]: the index of the flag called name, or 0
Formal(fs, name) ==
    IF \E i \in DOMAIN fs : fs[i].name = name
    THEN CHOOSE i \in DOMAIN fs : fs[i].name = name
    ELSE 0

\* the outcome of parseOne: seen (a flag was consumed), the error, the bound
\* variables, the arguments left, the message failf printed, Usage called
ParseResult(seen, err, vals, rest, msg, usage) ==
    [seen |-> seen, err |-> err, vals |-> vals, rest |-> rest, msg |-> msg,
     usage |-> usage]

\* parseOne returning (false, nil): no flag left
Done(vals, rest) == ParseResult(FALSE, nil, vals, rest, "", FALSE)

\* parseOne returning (true, nil): one flag set
Seen(vals, rest) == ParseResult(TRUE, nil, vals, rest, "", FALSE)

\* f.failf: the message is printed, Usage is called, the error returned
Failf(msg, vals, rest) == ParseResult(FALSE, Errorf(msg), vals, rest, msg, TRUE)

\* parseOne from f.formal[name] on: name, hasValue and value are split off
\* the argument, rest are the arguments after it.  The Set of a bool or int
\* flag stores what strconv returned also when it returns an error: false,
\* and 0 for a string that is no number
SetFlag(fs, name, hasValue, value, rest, vals) ==
    LET i == Formal(fs, name) IN
    IF i = 0
    THEN IF name = "help" \/ name = "h"
         THEN ParseResult(FALSE, ErrHelp, vals, rest, "", TRUE)
         ELSE Failf("flag provided but not defined: -" \o name, vals, rest)
    ELSE IF fs[i].type = "bool"
    THEN IF hasValue
         THEN IF IsBool(value)
              THEN Seen([vals EXCEPT ![name] = (value = "true")], rest)
              ELSE Failf("invalid boolean value for -" \o name,
                         [vals EXCEPT ![name] = FALSE], rest)
         ELSE Seen([vals EXCEPT ![name] = TRUE], rest)
    ELSE IF ~hasValue /\ Len(rest) = 0
    THEN Failf("flag needs an argument: -" \o name, vals, rest)
    ELSE IF hasValue
    THEN IF IsInt(value)
         THEN Seen([vals EXCEPT ![name] = IntOf(value)], rest)
         ELSE Failf("invalid value for flag -" \o name,
                    [vals EXCEPT ![name] = 0], rest)
    ELSE IF IsInt(rest[1])
         THEN Seen([vals EXCEPT ![name] = IntOf(rest[1])], Tail(rest))
         ELSE Failf("invalid value for flag -" \o name,
                    [vals EXCEPT ![name] = 0], Tail(rest))

\* parseOne from the flag syntax test on: full is the argument s without
\* its minus signs
NameAndValue(fs, s, full, rest, vals) ==
    IF Len(full) = 0 \/ full[1] = "-" \/ full[1] = "="
    THEN Failf("bad flag syntax: " \o s, vals, <<s>> \o rest)
    ELSE IF EqualsAt(full) # 0
    THEN SetFlag(fs, Join(SubSeq(full, 1, EqualsAt(full) - 1)), TRUE,
                 Join(From(full, EqualsAt(full))), rest, vals)
    ELSE SetFlag(fs, Join(full), FALSE, "", rest, vals)

\* FlagSet.parseOne
parseOne(fs, args, vals) ==
    IF Len(args) = 0 THEN Done(vals, args)
    ELSE IF Len(Chars(args[1])) < 2 \/ Chars(args[1])[1] # "-" THEN Done(vals, args)
    ELSE IF Chars(args[1])[2] = "-"
    THEN IF Len(Chars(args[1])) = 2
         THEN Done(vals, Tail(args))
         ELSE NameAndValue(fs, args[1], From(Chars(args[1]), 2), Tail(args), vals)
    ELSE NameAndValue(fs, args[1], From(Chars(args[1]), 1), Tail(args), vals)

RECURSIVE Parse(_, _, _)
\* the loop of FlagSet.Parse after one parseOne with outcome r
ParseLoop(fs, r) == IF r.seen THEN Parse(fs, r.rest, r.vals) ELSE r

\* FlagSet.Parse: parseOne until it sees no flag or fails
Parse(fs, args, vals) == ParseLoop(fs, parseOne(fs, args, vals))

(***************************************************************************)
(* The mutable world an operation works on:                                *)
(*   vals    bound flag variables of each command                          *)
(*   appName appName of each command                                       *)
(*   cout    Flags output of each command ("nil": unset)                   *)
(*   wr      the lines each writer has received                            *)
(*   parses  the Command.RunContext calls made, in order                   *)
(*   calls   the action invocations made, in order                         *)
(* An operation maps a world to a result record holding the new world w.   *)
(***************************************************************************)
\* Command.SetOutput
SetOutput(W, c, w) == [W EXCEPT !.cout[c] = w]

\* Command.Output (FlagSet.Output: os.Stderr when unset)
CommandOutput(W, c) == IF W.cout[c] = "nil" THEN "stderr" ELSE W.cout[c]

\* Command.SetAppName
SetAppName(W, c, name) == [W EXCEPT !.appName[c] = name]

\* FlagSet.PrintDefaults: one line per flag, in lexical order
PrintDefaults(fs) == [i \in DOMAIN fs |-> "  -" \o fs[i].name \o " " \o fs[i].usage]

\* the text Command.PrintUsageTo writes
CommandUsageLines(W, c) ==
    LET C == Cmd(c) IN
    << IF W.appName[c] # ""
       THEN "Usage: " \o W.appName[c] \o " " \o C.Name \o " [options]"
       ELSE "Usage: " \o C.Name \o " [options]",
       "", C.Usage >>
    \o (IF C.Description # "" THEN <<"", C.Description>> ELSE <<>>)
    \o (IF Len(C.Flags) > 0 THEN <<"", "Options:">> \o PrintDefaults(C.Flags) ELSE <<>>)

\* a write whose result is dropped (_, _ = fmt.Fprintf(w, ...))
Written(W, w, lines) == [W EXCEPT !.wr = WriteTo(W.wr, w, lines).wr]

\* Command.PrintUsageTo: every write result is dropped
CommandPrintUsageTo(W, c, w) == Written(W, w, CommandUsageLines(W, c))

\* Command.PrintUsage
CommandPrintUsage(W, c) == CommandPrintUsageTo(W, c, CommandOutput(W, c))

\* the value an action returns
ActionResult(c) == IF Cmd(c).Action = "fail" THEN Errorf("action failed") ELSE nil

\* the parse leaving the bound variables as they were when it fails
Parsed_Atomic(W, c, args, r) ==
    [W EXCEPT !.vals[c] = IF r.err # nil THEN W.vals[c] ELSE r.vals,
              !.parses = Append(@, [cmd |-> c, args |-> args])]

\* Command.RunContext, the parse: the bound variables are written, failf
\* prints its message to the FlagSet's output, and Flags.Usage (the empty
\* function when help is hidden, c.PrintUsage otherwise) runs if called
Parsed(W, c, args, r) ==
    [W EXCEPT !.vals[c] = r.vals,
              !.parses = Append(@, [cmd |-> c, args |-> args])]

Reported(W, c, r) ==
    IF r.msg # "" THEN Written(W, CommandOutput(W, c), <<r.msg>>) ELSE W

Helped(W, c, r) ==
    IF r.usage /\ ~Cmd(c).HideHelpFlag THEN CommandPrintUsage(W, c) ELSE W

\* Command.RunContext returning the help request whether hidden or not
AfterParse_HelpIsError(W, c, ctx, r) ==
    IF r.err # nil
    THEN [w |-> W, ret |-> r.err]
    ELSE IF Cmd(c).Action # "none"
    THEN [w |-> [W EXCEPT !.calls = Append(@, [cmd |-> c, ctx |-> ctx,
                                                vals |-> W.vals[c],
                                                args |-> r.rest])],
          ret |-> ActionResult(c)]
    ELSE [w |-> W, ret |-> nil]

\* Command.RunContext going on to the action after a help request it absorbs
AfterParse_HelpRunsAction(W, c, ctx, r) ==
    IF r.err # nil /\ (Cmd(c).HideHelpFlag \/ r.err # ErrHelp)
    THEN [w |-> W, ret |-> r.err]
    ELSE IF Cmd(c).Action # "none"
    THEN [w |-> [W EXCEPT !.calls = Append(@, [cmd |-> c, ctx |-> ctx,
                                                vals |-> W.vals[c],
                                                args |-> r.rest])],
          ret |-> ActionResult(c)]
    ELSE [w |-> W, ret |-> nil]

\* Command.RunContext wrapping the error its action returns
AfterParse_Wrapped(W, c, ctx, r) ==
    IF r.err # nil
    THEN IF Cmd(c).HideHelpFlag THEN [w |-> W, ret |-> r.err]
         ELSE IF r.err = ErrHelp THEN [w |-> W, ret |-> nil]
         ELSE [w |-> W, ret |-> r.err]
    ELSE IF Cmd(c).Action # "none"
    THEN [w |-> [W EXCEPT !.calls = Append(@, [cmd |-> c, ctx |-> ctx,
                                                vals |-> W.vals[c],
                                                args |-> r.rest])],
          ret |-> IF ActionResult(c) = nil THEN nil
                  ELSE Errorf("command failed: " \o ActionResult(c).msg)]
    ELSE [w |-> W, ret |-> nil]

\* Command.RunContext after the parse with outcome r left the world W
AfterParse(W, c, ctx, r) ==
    IF r.err # nil
    THEN IF Cmd(c).HideHelpFlag THEN [w |-> W, ret |-> r.err]
         ELSE IF r.err = ErrHelp THEN [w |-> W, ret |-> nil]
         ELSE [w |-> W, ret |-> r.err]
    ELSE IF Cmd(c).Action # "none"
    THEN [w |-> [W EXCEPT !.calls = Append(@, [cmd |-> c, ctx |-> ctx,
                                                vals |-> W.vals[c],
                                                args |-> r.rest])],
          ret |-> ActionResult(c)]
    ELSE [w |-> W, ret |-> nil]

\* Command.RunContext going on to the action whatever the parse returned
RunParsed_IgnoreError(W, c, ctx, args, r) ==
    AfterParse(Helped(Reported(Parsed(W, c, args, r), c, r), c, r), c, ctx,
               [r EXCEPT !.err = nil])

\* Command.RunContext with the outcome r of c.Flags.Parse(args)
RunParsed(W, c, ctx, args, r) ==
    AfterParse(Helped(Reported(Parsed(W, c, args, r), c, r), c, r), c, ctx, r)

\* Command.RunContext
CommandRunContext(W, c, ctx, args) ==
    RunParsed(W, c, ctx, args, Parse(Cmd(c).Flags, args, W.vals[c]))

(***************************************************************************)
(* Program: the registry and dispatcher (the variant that returns the      *)
(* results of its writes).                                                 *)
(***************************************************************************)
\* NewProgram(appName, version)
NewProgram(appName, version) ==
    [Commands |-> <<>>, Name |-> appName, Usage |-> "", Version |-> version,
     Banner |-> "", DefaultCommand |-> "",
     HideHelpCommand |-> FALSE, HideVersionCommand |-> FALSE,
     HideHelpFlag |-> FALSE, HideVersionFlag |-> FALSE,
     HelpCommand |-> "nil", VersionCommand |-> "nil", output |-> "nil"]

\* Program.Output
Output(p) == IF p.output = "nil" THEN "stderr" ELSE p.output

\* get with the built-ins looked up before the registered commands
get_BuiltinFirst(p, name) ==
    IF ~p.HideHelpCommand /\ name = "help"
    THEN IF p.HelpCommand # "nil" THEN p.HelpCommand ELSE "bhelp"
    ELSE IF ~p.HideVersionCommand /\ name = "version"
    THEN IF p.VersionCommand # "nil" THEN p.VersionCommand ELSE "bversion"
    ELSE IF \E i \in DOMAIN p.Commands : Cmd(p.Commands[i]).Name = name
    THEN p.Commands[CHOOSE i \in DOMAIN p.Commands :
                        /\ Cmd(p.Commands[i]).Name = name
                        /\ \A j \in 1..(i - 1) : Cmd(p.Commands[j]).Name # name]
    ELSE "nil"

\* get finding the custom or built-in help and version although hidden
get_HiddenFound(p, name) ==
    IF \E i \in DOMAIN p.Commands : Cmd(p.Commands[i]).Name = name
    THEN p.Commands[CHOOSE i \in DOMAIN p.Commands :
                        /\ Cmd(p.Commands[i]).Name = name
                        /\ \A j \in 1..(i - 1) : Cmd(p.Commands[j]).Name # name]
    ELSE IF name = "help"
    THEN IF p.HelpCommand # "nil" THEN p.HelpCommand ELSE "bhelp"
    ELSE IF name = "version"
    THEN IF p.VersionCommand # "nil" THEN p.VersionCommand ELSE "bversion"
    ELSE "nil"

\* Program.get: the id of the command found, or "nil"
get(p, name) ==
    IF \E i \in DOMAIN p.Commands : Cmd(p.Commands[i]).Name = name
    THEN p.Commands[CHOOSE i \in DOMAIN p.Commands :
                        /\ Cmd(p.Commands[i]).Name = name
                        /\ \A j \in 1..(i - 1) : Cmd(p.Commands[j]).Name # name]
    ELSE IF ~p.HideHelpCommand /\ name = "help"
    THEN IF p.HelpCommand # "nil" THEN p.HelpCommand ELSE "bhelp"
    ELSE IF ~p.HideVersionCommand /\ name = "version"
    THEN IF p.VersionCommand # "nil" THEN p.VersionCommand ELSE "bversion"
    ELSE "nil"

\* a built-in command is a new object at every lookup
Fresh(W, c) ==
    IF c \in {"bhelp", "bversion"}
    THEN [W EXCEPT !.vals[c] = Defaults(c), !.appName[c] = "", !.cout[c] = "nil"]
    ELSE W

\* Program.Get once p.get returned cmd
Configured(W, p, cmd) ==
    IF cmd # "nil"
    THEN [w |-> SetAppName(SetOutput(Fresh(W, cmd), cmd, Output(p)), cmd, p.Name),
          cmd |-> cmd]
    ELSE [w |-> W, cmd |-> "nil"]

\* Program.Get
Get(W, p, name) == Configured(W, p, get(p, name))

\* the line both the version flag and the version command print
VersionLine(p) == p.Name \o " version " \o p.Version

RECURSIVE MaxNameLen(_, _)
\* the longest command name of the registry
MaxNameLen(cmds, maxLen) ==
    IF cmds = <<>> THEN maxLen
    ELSE MaxNameLen(Tail(cmds),
                    IF Len(Cmd(Head(cmds)).Name) > maxLen
                    THEN Len(Cmd(Head(cmds)).Name) ELSE maxLen)

\* the text Program.PrintUsage builds
UsageLines(p) ==
    LET maxLen == MaxNameLen(p.Commands, 0) IN
    (IF p.Banner # "" THEN <<p.Banner, "">> ELSE <<>>)
    \o <<VersionLine(p)>>
    \o (IF p.Usage # "" THEN <<p.Usage>> ELSE <<>>)
    \o <<"", "USAGE:", "    " \o p.Name \o " [command] [options]", "", "COMMANDS:">>
    \o [i \in DOMAIN p.Commands |->
          "    " \o Pad(Cmd(p.Commands[i]).Name, maxLen) \o "    "
                 \o Cmd(p.Commands[i]).Usage]
    \o <<"", "Run '" \o p.Name \o " [command] -h' for more information on a command.">>

\* a write whose error is returned: r is what WriteTo gave
Wrote(W, r) == [w |-> [W EXCEPT !.wr = r.wr], ret |-> r.err]

\* Program.PrintUsage: one Write of the whole text, its error returned
PrintUsage(W, p) == Wrote(W, WriteTo(W.wr, Output(p), UsageLines(p)))

\* fmt.Fprintf(p.Output(), ...) of the given lines
Fprintf(W, p, lines) == Wrote(W, WriteTo(W.wr, Output(p), lines))

\* isFlag
isFlag(arg) == Len(Chars(arg)) > 0 /\ Chars(arg)[1] = "-"

\* the global flag loop looking at the first argument only
GlobalFlagAt_FirstOnly(p, cmdArgs) ==
    IF /\ Len(cmdArgs) > 0
       /\ \/ ~p.HideVersionFlag /\ (cmdArgs[1] = "-v" \/ cmdArgs[1] = "--version")
          \/ ~p.HideHelpFlag /\ (cmdArgs[1] = "-h" \/ cmdArgs[1] = "--help")
    THEN 1
    ELSE 0

\* the global flag loop without its help branch
GlobalFlagAt_VersionOnly(p, cmdArgs) ==
    LET hit(i) == ~p.HideVersionFlag /\ (cmdArgs[i] = "-v" \/ cmdArgs[i] = "--version")
    IN  IF \E i \in DOMAIN cmdArgs : hit(i)
        THEN CHOOSE i \in DOMAIN cmdArgs : hit(i) /\ \A j \in 1..(i - 1) : ~hit(j)
        ELSE 0

\* the global flag loop preferring a version token to a help token before it
GlobalFlagAt_VersionFirst(p, cmdArgs) ==
    LET ver(i)  == ~p.HideVersionFlag /\ (cmdArgs[i] = "-v" \/ cmdArgs[i] = "--version")
        help(i) == ~p.HideHelpFlag /\ (cmdArgs[i] = "-h" \/ cmdArgs[i] = "--help")
    IN  IF \E i \in DOMAIN cmdArgs : ver(i)
        THEN CHOOSE i \in DOMAIN cmdArgs : ver(i) /\ \A j \in 1..(i - 1) : ~ver(j)
        ELSE IF \E i \in DOMAIN cmdArgs : help(i)
        THEN CHOOSE i \in DOMAIN cmdArgs : help(i) /\ \A j \in 1..(i - 1) : ~help(j)
        ELSE 0

\* the index of the first argument the global flag loop returns on, or 0
GlobalFlagAt(p, cmdArgs) ==
    LET hit(i) == \/ ~p.HideVersionFlag /\ (cmdArgs[i] = "-v" \/ cmdArgs[i] = "--version")
                  \/ ~p.HideHelpFlag /\ (cmdArgs[i] = "-h" \/ cmdArgs[i] = "--help")
    IN  IF \E i \in DOMAIN cmdArgs : hit(i)
        THEN CHOOSE i \in DOMAIN cmdArgs : hit(i) /\ \A j \in 1..(i - 1) : ~hit(j)
        ELSE 0

\* the command's usage printed by "help <command>", its write error returned
CommandPrintUsageErr(W, c) ==
    Wrote(W, WriteTo(W.wr, CommandOutput(W, c), CommandUsageLines(W, c)))

\* return err unless the step before failed: r is that step's result
OrElse(r, err) == IF r.ret # nil THEN r ELSE [w |-> r.w, ret |-> err]

\* p.PrintUsage() unless the step before failed
ThenUsage(r, p) == IF r.ret # nil THEN r ELSE PrintUsage(r.w, p)

\* the not-found ending that prints the message without the usage
NotFound_NoUsage(W, p, msg, err) == OrElse(Fprintf(W, p, <<msg, "">>), err)

\* print msg, then the usage, then return err: the two not-found endings
NotFound(W, p, msg, err) == OrElse(ThenUsage(Fprintf(W, p, <<msg, "">>), p), err)

\* the global flag loop returning on argument arg
GlobalFlag(W, p, arg) ==
    IF ~p.HideVersionFlag /\ (arg = "-v" \/ arg = "--version")
    THEN Fprintf(W, p, <<VersionLine(p)>>)
    ELSE PrintUsage(W, p)

\* "help <command>" reporting an unknown name without failing
HelpFor_NoError(W, p, subCmdName, r) ==
    IF r.cmd = "nil"
    THEN Fprintf(W, p, <<"help: unknown command: " \o subCmdName>>)
    ELSE CommandPrintUsageErr(r.w, r.cmd)

\* "help <command>" once p.Get(subCmdName) gave r
HelpFor(W, p, subCmdName, r) ==
    IF r.cmd = "nil"
    THEN OrElse(Fprintf(W, p, <<"help: unknown command: " \o subCmdName>>),
                Errorf("unknown command: " \o subCmdName))
    ELSE CommandPrintUsageErr(r.w, r.cmd)

\* the delegation handing the command a context of the dispatcher's own
Delegate_BackgroundContext(W, p, ctx, cmdName, cmdArgs, usingDefaultCommand, r) ==
    IF r.cmd = "nil"
    THEN IF usingDefaultCommand
         THEN NotFound(W, p, "Default command '" \o cmdName \o "' not found",
                       Errorf("default command not found: " \o cmdName))
         ELSE NotFound(W, p, "Unknown command: " \o cmdName,
                       Errorf("unknown command: " \o cmdName))
    ELSE CommandRunContext(r.w, r.cmd, "background", cmdArgs)

\* the delegation running the command twice
Delegate_Twice(W, p, ctx, cmdName, cmdArgs, usingDefaultCommand, r) ==
    IF r.cmd = "nil"
    THEN IF usingDefaultCommand
         THEN NotFound(W, p, "Default command '" \o cmdName \o "' not found",
                       Errorf("default command not found: " \o cmdName))
         ELSE NotFound(W, p, "Unknown command: " \o cmdName,
                       Errorf("unknown command: " \o cmdName))
    ELSE CommandRunContext(CommandRunContext(r.w, r.cmd, ctx, cmdArgs).w,
                           r.cmd, ctx, cmdArgs)

\* the lookup and the delegation once p.Get(cmdName) gave r
Delegate(W, p, ctx, cmdName, cmdArgs, usingDefaultCommand, r) ==
    IF r.cmd = "nil"
    THEN IF usingDefaultCommand
         THEN NotFound(W, p, "Default command '" \o cmdName \o "' not found",
                       Errorf("default command not found: " \o cmdName))
         ELSE NotFound(W, p, "Unknown command: " \o cmdName,
                       Errorf("unknown command: " \o cmdName))
    ELSE CommandRunContext(r.w, r.cmd, ctx, cmdArgs)

\* the dispatcher whose help command ignores the name that follows it
Dispatch_HelpIgnoresName(W, p, ctx, cmdName, cmdArgs, usingDefaultCommand) ==
    IF GlobalFlagAt(p, cmdArgs) # 0
    THEN GlobalFlag(W, p, cmdArgs[GlobalFlagAt(p, cmdArgs)])
    ELSE IF ~p.HideVersionCommand /\ cmdName = "version"
    THEN Fprintf(W, p, <<VersionLine(p)>>)
    ELSE IF ~p.HideHelpCommand /\ cmdName = "help"
    THEN PrintUsage(W, p)
    ELSE Delegate(W, p, ctx, cmdName, cmdArgs, usingDefaultCommand,
                  Get(W, p, cmdName))

\* the dispatcher looking the command up before it scans for global flags
Dispatch_LookupFirst(W, p, ctx, cmdName, cmdArgs, usingDefaultCommand) ==
    IF get(p, cmdName) = "nil"
    THEN Delegate(W, p, ctx, cmdName, cmdArgs, usingDefaultCommand,
                  Get(W, p, cmdName))
    ELSE IF GlobalFlagAt(p, cmdArgs) # 0
    THEN GlobalFlag(W, p, cmdArgs[GlobalFlagAt(p, cmdArgs)])
    ELSE IF ~p.HideVersionCommand /\ cmdName = "version"
    THEN Fprintf(W, p, <<VersionLine(p)>>)
    ELSE IF ~p.HideHelpCommand /\ cmdName = "help"
    THEN IF Len(cmdArgs) > 0
         THEN HelpFor(W, p, cmdArgs[1], Get(W, p, cmdArgs[1]))
         ELSE PrintUsage(W, p)
    ELSE Delegate(W, p, ctx, cmdName, cmdArgs, usingDefaultCommand,
                  Get(W, p, cmdName))

\* Program.RunContext from the point where cmdName and cmdArgs are known
Dispatch(W, p, ctx, cmdName, cmdArgs, usingDefaultCommand) ==
    IF GlobalFlagAt(p, cmdArgs) # 0
    THEN GlobalFlag(W, p, cmdArgs[GlobalFlagAt(p, cmdArgs)])
    ELSE IF ~p.HideVersionCommand /\ cmdName = "version"
    THEN Fprintf(W, p, <<VersionLine(p)>>)
    ELSE IF ~p.HideHelpCommand /\ cmdName = "help"
    THEN IF Len(cmdArgs) > 0
         THEN HelpFor(W, p, cmdArgs[1], Get(W, p, cmdArgs[1]))
         ELSE PrintUsage(W, p)
    ELSE Delegate(W, p, ctx, cmdName, cmdArgs, usingDefaultCommand,
                  Get(W, p, cmdName))

\* no command is given: argv[1] is missing or a flag
NoCommand(args) == Len(args) < 2 \/ isFlag(args[2])

\* Program.RunContext taking a flag as argv[1] for a command name
ProgramRunContext_NoFlagTest(W, p, ctx, args) ==
    IF Len(args) < 2 /\ p.DefaultCommand = ""
    THEN PrintUsage(W, p)
    ELSE Dispatch(W, p, ctx,
                  IF Len(args) < 2 THEN p.DefaultCommand ELSE args[2],
                  IF Len(args) < 2 THEN <<>> ELSE From(args, 2),
                  Len(args) < 2)

\* Program.RunContext reporting a flag given as argv[1] as an unknown
\* command when there is no default command
ProgramRunContext_FlagIsError(W, p, ctx, args) ==
    IF Len(args) < 2 /\ p.DefaultCommand = ""
    THEN PrintUsage(W, p)
    ELSE IF NoCommand(args) /\ p.DefaultCommand = ""
    THEN NotFound(W, p, "Unknown command: " \o args[2],
                  Errorf("unknown command: " \o args[2]))
    ELSE Dispatch(W, p, ctx,
                  IF NoCommand(args) THEN p.DefaultCommand ELSE args[2],
                  IF NoCommand(args)
                  THEN (IF Len(args) >= 2 THEN From(args, 1) ELSE <<>>)
                  ELSE From(args, 2),
                  NoCommand(args))

\* Program.RunContext running the default command whenever one is set
ProgramRunContext_DefaultFirst(W, p, ctx, args) ==
    IF p.DefaultCommand # ""
    THEN Dispatch(W, p, ctx, p.DefaultCommand,
                  IF Len(args) >= 2 THEN From(args, 1) ELSE <<>>, TRUE)
    ELSE IF NoCommand(args)
    THEN PrintUsage(W, p)
    ELSE Dispatch(W, p, ctx, args[2], From(args, 2), FALSE)

\* Program.RunContext
ProgramRunContext(W, p, ctx, args) ==
    IF NoCommand(args) /\ p.DefaultCommand = ""
    THEN PrintUsage(W, p)
    ELSE Dispatch(W, p, ctx,
                  IF NoCommand(args) THEN p.DefaultCommand ELSE args[2],
                  IF NoCommand(args)
                  THEN (IF Len(args) >= 2 THEN From(args, 1) ELSE <<>>)
                  ELSE From(args, 2),
                  NoCommand(args))

(***************************************************************************)
(* Program of src/program.go: the same dispatcher, every result of a write *)
(* to the output dropped.                                                  *)
(***************************************************************************)
\* Program.PrintUsageTo of program.go: the result of every write is dropped
PrintUsageTo(W, p, w) == Written(W, w, UsageLines(p))

\* Program.PrintUsage of program.go
ProgramGo_PrintUsage(W, p) == PrintUsageTo(W, p, Output(p))

\* fmt.Fprintf(p.Output(), ...) with its result dropped
ProgramGo_Fprintf(W, p, lines) == Written(W, Output(p), lines)

\* a statement that changes the world followed by return err
Returning(W, err) == [w |-> W, ret |-> err]

\* the global flag loop of program.go returning on argument arg
ProgramGo_GlobalFlag(W, p, arg) ==
    IF ~p.HideVersionFlag /\ (arg = "-v" \/ arg = "--version")
    THEN Returning(ProgramGo_Fprintf(W, p, <<VersionLine(p)>>), nil)
    ELSE Returning(ProgramGo_PrintUsage(W, p), nil)

\* "help <command>" of program.go once p.Get(subCmdName) gave r
ProgramGo_HelpFor(W, p, subCmdName, r) ==
    IF r.cmd = "nil"
    THEN Returning(ProgramGo_Fprintf(W, p, <<"help: unknown command: " \o subCmdName>>),
                   Errorf("unknown command: " \o subCmdName))
    ELSE Returning(CommandPrintUsage(r.w, r.cmd), nil)

\* the not-found ending of program.go printing the message without the usage
ProgramGo_NotFound_NoUsage(W, p, msg, err) ==
    Returning(ProgramGo_Fprintf(W, p, <<msg, "">>), err)

\* the not-found endings of program.go: the message, the usage, the error
ProgramGo_NotFound(W, p, msg, err) ==
    Returning(ProgramGo_PrintUsage(ProgramGo_Fprintf(W, p, <<msg, "">>), p), err)

\* the lookup and the delegation of program.go once p.Get(cmdName) gave r
ProgramGo_Delegate(W, p, ctx, cmdName, cmdArgs, usingDefaultCommand, r) ==
    IF r.cmd = "nil"
    THEN IF usingDefaultCommand
         THEN ProgramGo_NotFound(W, p, "Default command '" \o cmdName \o "' not found",
                                 Errorf("default command not found: " \o cmdName))
         ELSE ProgramGo_NotFound(W, p, "Unknown command: " \o cmdName,
                                 Errorf("unknown command: " \o cmdName))
    ELSE CommandRunContext(r.w, r.cmd, ctx, cmdArgs)

\* Program.RunContext of program.go from the point where cmdName and
\* cmdArgs are known
ProgramGo_Dispatch(W, p, ctx, cmdName, cmdArgs, usingDefaultCommand) ==
    IF GlobalFlagAt(p, cmdArgs) # 0
    THEN ProgramGo_GlobalFlag(W, p, cmdArgs[GlobalFlagAt(p, cmdArgs)])
    ELSE IF ~p.HideVersionCommand /\ cmdName = "version"
    THEN Returning(ProgramGo_Fprintf(W, p, <<VersionLine(p)>>), nil)
    ELSE IF ~p.HideHelpCommand /\ cmdName = "help"
    THEN IF Len(cmdArgs) > 0
         THEN ProgramGo_HelpFor(W, p, cmdArgs[1], Get(W, p, cmdArgs[1]))
         ELSE Returning(ProgramGo_PrintUsage(W, p), nil)
    ELSE ProgramGo_Delegate(W, p, ctx, cmdName, cmdArgs, usingDefaultCommand,
                            Get(W, p, cmdName))

\* Program.RunContext of program.go reporting a flag given as argv[1] as an
\* unknown command when there is no default command
ProgramGo_RunContext_FlagIsError(W, p, ctx, args) ==
    IF Len(args) < 2 /\ p.DefaultCommand = ""
    THEN Returning(ProgramGo_PrintUsage(W, p), nil)
    ELSE IF NoCommand(args) /\ p.DefaultCommand = ""
    THEN ProgramGo_NotFound(W, p, "Unknown command: " \o args[2],
                            Errorf("unknown command: " \o args[2]))
    ELSE ProgramGo_Dispatch(W, p, ctx,
                            IF NoCommand(args) THEN p.DefaultCommand ELSE args[2],
                            IF NoCommand(args)
                            THEN (IF Len(args) >= 2 THEN From(args, 1) ELSE <<>>)
                            ELSE From(args, 2),
                            NoCommand(args))

\* Program.RunContext of program.go
ProgramGo_RunContext(W, p, ctx, args) ==
    IF NoCommand(args) /\ p.DefaultCommand = ""
    THEN Returning(ProgramGo_PrintUsage(W, p), nil)
    ELSE ProgramGo_Dispatch(W, p, ctx,
                            IF NoCommand(args) THEN p.DefaultCommand ELSE args[2],
                            IF NoCommand(args)
                            THEN (IF Len(args) >= 2 THEN From(args, 1) ELSE <<>>)
                            ELSE From(args, 2),
                            NoCommand(args))

(***************************************************************************)
(* The state machine: a program is constructed and configured (Init), and  *)
(* one operation is then called on it.                                     *)
(***************************************************************************)
VARIABLES
    prog,       \* the Program's fields
    vals,       \* bound flag variables of each command
    appName,    \* appName of each command
    cout,       \* Flags output of each command
    wr,         \* the lines each writer has received
    parses,     \* the Command.RunContext calls made
    calls,      \* the action invocations made
    op,         \* the operation called and its arguments
    ret,        \* what the operation returned
    inflight    \* the dispatches begun on a command, in the order of their parses

vars == <<prog, vals, appName, cout, wr, parses, calls, op, ret, inflight>>

\* the registry and the default command of a program: none, one that is
\* not registered, plain commands, two commands of one name, a command
\* without an action, user commands holding the reserved names, and a
\* reserved name as the default
Setups ==
    { << <<>>, "" >>, << <<>>, "init" >>,
      << <<"init", "build">>, "" >>, << <<"init", "build">>, "init" >>,
      << <<"init2", "init">>, "init" >>, << <<"init", "noop">>, "help" >>,
      << <<"uhelp", "uversion">>, "" >>, << <<"uhelp", "uversion">>, "version" >> }

\* Banner, Usage, HelpCommand and VersionCommand: all unset, or all set
Looks ==
    { <<"", "", "nil", "nil">>,
      <<"BANNER", "A test application", "chelp", "cversion">> }

\* the programs the model configures: every setting of the four hide
\* toggles, with a writer that accepts or refuses what is written
Programs ==
    { [NewProgram("testapp", "1.0.0") EXCEPT
          !.Commands = su[1], !.DefaultCommand = su[2],
          !.Banner = lk[1], !.Usage = lk[2],
          !.HelpCommand = lk[3], !.VersionCommand = lk[4],
          !.HideHelpCommand = h[1], !.HideVersionCommand = h[2],
          !.HideHelpFlag = h[3], !.HideVersionFlag = h[4],
          !.output = o] :
        su \in Setups, lk \in Looks, o \in {"buf", "bad"},
        h \in BOOLEAN \X BOOLEAN \X BOOLEAN \X BOOLEAN }

\* the arguments a caller passes after argv[0]
Tokens ==
    {"-v", "--version", "-h", "--help", "-port", "-port=3000", "3000", "--",
     "init", "build", "help", "version", "nope"}

RECURSIVE ArgLists(_)
\* the argument lists of length up to n
ArgLists(n) ==
    IF n = 0 THEN {<<>>}
    ELSE LET shorter == ArgLists(n - 1)
         IN  shorter \cup {Append(a, t) : a \in {b \in shorter : Len(b) = n - 1},
                                          t \in Tokens}

\* the argument vectors: argv[0] followed by up to MaxArgs arguments
Argvs == {<<"testapp">> \o a : a \in ArgLists(MaxArgs)}

\* the contexts a caller passes
Contexts == {"background", "ctx1"}

\* the names a caller looks up
Names == {"init", "build", "help", "version", "nope"}

World ==
    [vals |-> vals, appName |-> appName, cout |-> cout, wr |-> wr,
     parses |-> parses, calls |-> calls]

SetWorld(W) ==
    /\ vals' = W.vals
    /\ appName' = W.appName
    /\ cout' = W.cout
    /\ wr' = W.wr
    /\ parses' = W.parses
    /\ calls' = W.calls

Op(kind, ctx, args, name) == [kind |-> kind, ctx |-> ctx, args |-> args, name |-> name]

Init ==
    /\ prog \in Programs
    /\ vals = [c \in AllCmdIds |-> Defaults(c)]
    /\ appName = [c \in AllCmdIds |-> ""]
    /\ cout = [c \in AllCmdIds |-> "nil"]
    /\ wr = [w \in Writers |-> <<>>]
    /\ parses = <<>>
    /\ calls = <<>>
    /\ op = Op("none", "", <<>>, "")
    /\ ret = nil
    /\ inflight = <<>>

\* the call returns: r holds the world it leaves and its result
Return(r) ==
    /\ SetWorld(r.w)
    /\ ret' = r.ret

\* what the caller of Get holds: the command, or nil
Found(r) == [w |-> r.w, ret |-> [kind |-> "cmd", cmd |-> r.cmd]]

\* err := prog.RunContext(ctx, args)
Run(ctx, args) ==
    /\ op.kind = "none"
    /\ Return(ProgramRunContext(World, prog, ctx, args))
    /\ op' = Op("run", ctx, args, "")
    /\ UNCHANGED <<prog, inflight>>

\* cmd := prog.Get(name)
Lookup(name) ==
    /\ op.kind = "none"
    /\ Return(Found(Get(World, prog, name)))
    /\ op' = Op("get", "", <<>>, name)
    /\ UNCHANGED <<prog, inflight>>

\* the program has not been called yet
Unused == op.kind = "none"

Next ==
    \/ Unused /\ \E ctx \in Contexts, args \in Argvs : Run(ctx, args)
    \/ Unused /\ \E name \in Names : Lookup(name)

Spec == Init /\ [][Next]_vars

(***************************************************************************)
(* The program of src/program.go: the same programs, the same calls.       *)
(***************************************************************************)
\* err := prog.RunContext(ctx, args) on the Program of program.go
RunGo(ctx, args) ==
    /\ op.kind = "none"
    /\ Return(ProgramGo_RunContext(World, prog, ctx, args))
    /\ op' = Op("run", ctx, args, "")
    /\ UNCHANGED <<prog, inflight>>

GoNext == Unused /\ \E ctx \in Contexts, args \in Argvs : RunGo(ctx, args)

GoSpec == Init /\ [][GoNext]_vars

(***************************************************************************)
(* A command used on its own: it is constructed, given an output and an    *)
(* application name or neither (CmdInit), and RunContext is called on it.  *)
(***************************************************************************)
\* the commands a caller runs directly
DirectCmds == {"init", "build", "noop", "deploy", "quiet"}

CmdInit ==
    /\ prog = NewProgram("testapp", "1.0.0")
    /\ vals = [c \in AllCmdIds |-> Defaults(c)]
    /\ \E a \in {"", "testapp"} : appName = [c \in AllCmdIds |-> a]
    /\ \E o \in {"nil", "buf", "bad"} : cout = [c \in AllCmdIds |-> o]
    /\ wr = [w \in Writers |-> <<>>]
    /\ parses = <<>>
    /\ calls = <<>>
    /\ op = Op("none", "", <<>>, "")
    /\ ret = nil
    /\ inflight = <<>>

\* err := cmd.RunContext(ctx, args)
RunCommand(c, ctx, args) ==
    /\ op.kind = "none"
    /\ Return(CommandRunContext(World, c, ctx, args))
    /\ op' = Op("cmd", ctx, args, c)
    /\ UNCHANGED <<prog, inflight>>

RECURSIVE ArgListsOver(_, _)
\* the argument lists of length up to n over the tokens T
ArgListsOver(T, n) ==
    IF n = 0 THEN {<<>>}
    ELSE ArgListsOver(T, n - 1) \cup
         {Append(a, t) : a \in {b \in ArgListsOver(T, n - 1) : Len(b) = n - 1},
                         t \in T}

\* the arguments a caller passes to a command: those of a program, and a
\* flag whose value is no number
CmdTokens == Tokens \cup {"-port=nope"}

CmdNext ==
    Unused /\ \E c \in DirectCmds, ctx \in Contexts,
                 args \in ArgListsOver(CmdTokens, MaxArgs) :
                  RunCommand(c, ctx, args)

CmdSpec == CmdInit /\ [][CmdNext]_vars

(***************************************************************************)
(* Several dispatches on one command.  Command.RunContext is two steps:    *)
(* c.Flags.Parse(args), which writes the bound variables of the command,   *)
(* and c.Action(ctx, c), which reads them.  Nothing in the Command keeps   *)
(* another dispatch from parsing between the two; the parse itself is one  *)
(* step here.                                                              *)
(***************************************************************************)
MaxDispatches == 2

\* the commands dispatched to more than once
SharedCmds == {"init"}

\* the arguments of these dispatches: flags of the command, and one whose
\* value is refused
SharedTokens == {"-port=3000", "-port=9000", "-v", "-port=nope"}

\* c.Flags.Parse(args) parsing into the variables as an earlier parse left them
Dispatched_FromDefaults(W, c, args) ==
    Parse(Cmd(c).Flags, args, [k \in DOMAIN W.vals[c] |-> Defaults(c)[k]])

\* c.Flags.Parse(args): the FlagSet and its bound variables are the
\* command's, made once by NewCommand and the caller
Dispatched(W, c, args) == Parse(Cmd(c).Flags, args, W.vals[c])

\* the parse returned nil and there is an action to call
Pending(c, r) == r.err = nil /\ Cmd(c).Action # "none"

\* a dispatch past its parse: what it was given, what its parse found and
\* left, whether it has returned, and whether no other dispatch was under
\* way with it
Started(W, c, args, r, alone) ==
    [cmd |-> c, args |-> args, r |-> r, before |-> W.vals[c], after |-> r.vals,
     pc |-> IF Pending(c, r) THEN "parsed" ELSE "returned",
     alone |-> alone, seen |-> r.vals, call |-> 0]

\* the dispatches now between their parse and their action
Underway(ds) == {i \in DOMAIN ds : ds[i].pc = "parsed"}

\* the action of dispatch i reading the variables before its parse wrote them
Observable_Unparsed(ds, i) == {ds[i].before}

\* what the action of dispatch i can read from the bound variables: of each
\* variable the value its own parse left or one a parse made since has
\* written; with no parse since, those of its own parse, and when the later
\* parse is not ordered before the read, either
Observable(ds, i) ==
    {[k \in DOMAIN ds[i].after |-> ds[from[k]].after[k]] :
        from \in [DOMAIN ds[i].after -> i..Len(ds)]}

\* the action has read obs; the variables themselves are as they were
Observed(W, res) == [res EXCEPT !.w.vals = W.vals]

\* Command.Run(args) up to the return of c.Flags.Parse, and to its own
\* return if the parse failed
BeginParsed(c, args, r) ==
    /\ Len(inflight) < MaxDispatches
    /\ IF Pending(c, r)
       THEN /\ SetWorld(Helped(Reported(Parsed(World, c, args, r), c, r), c, r))
            /\ UNCHANGED ret
       ELSE Return(RunParsed(World, c, "background", args, r))
    /\ inflight' = Append([i \in DOMAIN inflight |->
                              [inflight[i] EXCEPT !.alone = @ /\ inflight[i].pc = "returned"]],
                          Started(World, c, args, r, Underway(inflight) = {}))
    /\ UNCHANGED <<prog, op>>

Begin(c, args) == BeginParsed(c, args, Dispatched(World, c, args))

\* Command.RunContext from "if c.Action != nil" on, for dispatch i
Finish(i, obs) ==
    /\ i \in Underway(inflight)
    /\ obs \in Observable(inflight, i)
    /\ Return(Observed(World, AfterParse([World EXCEPT !.vals[inflight[i].cmd] = obs],
                                         inflight[i].cmd, "background", inflight[i].r)))
    /\ inflight' = [inflight EXCEPT ![i].pc = "returned", ![i].seen = obs,
                                    ![i].call = Len(calls) + 1]
    /\ UNCHANGED <<prog, op>>

SharedNext ==
    \/ \E c \in SharedCmds, args \in ArgListsOver(SharedTokens, MaxArgs) : Begin(c, args)
    \/ \E i \in DOMAIN inflight : \E obs \in Observable(inflight, i) : Finish(i, obs)

SharedSpec == CmdInit /\ [][SharedNext]_vars

(***************************************************************************)
(* Vocabulary of the properties.                                           *)
(***************************************************************************)
\* the last operation was Program.RunContext
Ran == op.kind = "run"

\* the Commands of the program as a set of positions
Registered == DOMAIN prog.Commands

\* no two registered commands share a name
UniqueNames ==
    \A i, j \in Registered :
        i # j => Cmd(prog.Commands[i]).Name # Cmd(prog.Commands[j]).Name

\* the first registered command called name, or "nil"
FirstNamed(name) ==
    IF \E i \in Registered : Cmd(prog.Commands[i]).Name = name
    THEN prog.Commands[CHOOSE i \in Registered :
            /\ Cmd(prog.Commands[i]).Name = name
            /\ \A j \in Registered : j < i => Cmd(prog.Commands[j]).Name # name]
    ELSE "nil"

\* what the program's output writer received
Sink == wr[Output(prog)]

\* the writer takes what is written to it
Accepts == prog.output # "bad"

HasLine(lines, l) == \E i \in DOMAIN lines : lines[i] = l

\* args holds a version (help) token the program does not hide
ShownVersionTok(args) ==
    ~prog.HideVersionFlag /\ \E i \in DOMAIN args : args[i] \in {"-v", "--version"}

ShownHelpTok(args) ==
    ~prog.HideHelpFlag /\ \E i \in DOMAIN args : args[i] \in {"-h", "--help"}

\* the commands whose action ran, in order
Invoked == [i \in DOMAIN calls |-> calls[i].cmd]

\* no line was written anywhere
NothingWritten == \A w \in Writers : wr[w] = <<>>

(***************************************************************************)
(* C1: for a program whose registered commands have unique names and a     *)
(* registered command C, RunContext(ctx, [prog, C.Name, flags...]) invokes *)
(* exactly C's action, with the flags parsed into C's bound variables.     *)
(* Stated for flags that C's parser accepts and that hold no global flag   *)
(* token.  The code breaks it for a command named "help" or "version"      *)
(* while the built-in of that name is not hidden.                          *)
(***************************************************************************)
C1_ExactlyNamedCommand ==
    \A i \in Registered :
        LET c     == prog.Commands[i]
            flags == From(op.args, 2)
            want  == Parse(Cmd(c).Flags, flags, Defaults(c))
        IN  ( /\ Ran /\ UniqueNames
              /\ Len(op.args) >= 2 /\ op.args[2] = Cmd(c).Name
              /\ want.err = nil
              /\ \A k \in DOMAIN flags : flags[k] \notin {"-v", "--version", "-h", "--help"} )
            => /\ Invoked = <<c>>
               /\ calls[1].ctx = op.ctx
               /\ calls[1].vals = want.vals
               /\ vals[c] = want.vals

(***************************************************************************)
(* C2: with no default command, when argv has no argv[1] or argv[1] begins *)
(* with '-', RunContext prints the full usage (it holds "USAGE:"), returns *)
(* nil and invokes no action.  As claimed: whatever the writer does.       *)
(***************************************************************************)
C2_NoCommand == Ran /\ prog.DefaultCommand = "" /\ (Len(op.args) < 2 \/ isFlag(op.args[2]))

C2_UsageAndNil ==
    C2_NoCommand => /\ ret = nil
                    /\ HasLine(Sink, "USAGE:")
                    /\ calls = <<>>

\* C2 as amended: the usage is printed and nil returned when the writer takes
\* the write; when the write fails its error is returned and nothing is
\* written; no action is invoked and no command parses in either case
C2_UsageUnlessWriteFails ==
    C2_NoCommand =>
        /\ calls = <<>> /\ parses = <<>>
        /\ Accepts => /\ ret = nil
                      /\ Sink = UsageLines(prog)
                      /\ HasLine(Sink, "USAGE:")
        /\ ~Accepts => ret = ErrWrite /\ NothingWritten

\* C2's case: a flag as argv[1], no default command, the usage printed
C2_Witness ==
    /\ C2_NoCommand /\ Len(op.args) = 3 /\ op.args[2] = "-port" /\ Accepts
    /\ prog.Commands = <<"init", "build">>
    /\ ret = nil /\ HasLine(Sink, "USAGE:") /\ calls = <<>>

(***************************************************************************)
(* C3: with a default command set and registered, RunContext(ctx, [prog])  *)
(* executes the default command's action with an empty argument list; and  *)
(* when argv[1] begins with '-' and no non-hidden global flag token is     *)
(* present, all of argv[1:] is forwarded to the default command and parsed *)
(* into its bound variables.  The code breaks it for a default command     *)
(* named "help" or "version" while the built-in of that name is not hidden.*)
(***************************************************************************)
C3_DefaultCommandRuns ==
    LET d == FirstNamed(prog.DefaultCommand)
        a == From(op.args, 1)
    IN  (Ran /\ prog.DefaultCommand # "" /\ d # "nil") =>
            /\ Len(op.args) < 2 =>
                  /\ Invoked = <<d>>
                  /\ parses = <<[cmd |-> d, args |-> <<>>]>>
            /\ ( /\ Len(op.args) >= 2 /\ isFlag(op.args[2])
                 /\ ~ShownVersionTok(a) /\ ~ShownHelpTok(a) ) =>
                  /\ parses = <<[cmd |-> d, args |-> a]>>
                  /\ vals[d] = Parse(Cmd(d).Flags, a, Defaults(d)).vals

(***************************************************************************)
(* C4: with the version flag not hidden, RunContext(ctx, [prog, "-v"])     *)
(* returns nil, the version line "<Name> version <Version>" is the first   *)
(* thing written, and no action is executed, with or without a default     *)
(* command and for every Banner/Usage setting.  Stated for a writer that   *)
(* takes what is written.  The code breaks it without a default command:   *)
(* it prints the full usage, which starts with the banner.                 *)
(***************************************************************************)
C4_VersionLineFirst ==
    (Ran /\ ~prog.HideVersionFlag /\ op.args = <<"testapp", "-v">> /\ Accepts) =>
        /\ ret = nil
        /\ Len(Sink) >= 1 /\ Sink[1] = "testapp version 1.0.0"
        /\ calls = <<>>

(***************************************************************************)
(* C5: with a default command configured and argv[1] beginning with '-', a *)
(* non-hidden global flag token at any position of argv[1:] makes          *)
(* RunContext return nil without executing the default command's action,   *)
(* printing the version line for a version token and the full usage for a  *)
(* help token.  As claimed: whatever the writer does.                      *)
(***************************************************************************)
C5_DefaultWithGlobalTok ==
    /\ Ran /\ prog.DefaultCommand # ""
    /\ Len(op.args) >= 2 /\ isFlag(op.args[2])
    /\ (ShownVersionTok(From(op.args, 1)) \/ ShownHelpTok(From(op.args, 1)))

\* what is printed for the tokens of args: the version line when only a
\* version token is shown, the usage when only a help token is, one of the
\* two when both are
C5_Printed(args) ==
    /\ (ShownVersionTok(args) /\ ~ShownHelpTok(args)) => Sink = <<"testapp version 1.0.0">>
    /\ (ShownHelpTok(args) /\ ~ShownVersionTok(args)) =>
            Sink = UsageLines(prog) /\ HasLine(Sink, "USAGE:")
    /\ Sink \in {<<"testapp version 1.0.0">>, UsageLines(prog)}

C6_CommandHelp ==
    \A i \in Registered :
        LET c == prog.Commands[i] IN
        ( /\ Ran /\ UniqueNames /\ Accepts
          /\ op.args = <<"testapp", Cmd(c).Name, "-h">>
          /\ Cmd(c).Name \notin {"help", "version"}
          /\ ~Cmd(c).HideHelpFlag )
        => /\ Len(Sink) >= 1
           /\ Sink[1] = "Usage: testapp " \o Cmd(c).Name \o " [options]"
           /\ ~HasLine(Sink, "USAGE:")

(***************************************************************************)
(* C7: when an explicit command name is given, argv[2:] is scanned for     *)
(* non-hidden global flag tokens before any command lookup or parsing: if  *)
(* one is present the version line or the full usage is printed, nil is    *)
(* returned, and the named command's parser and action never run.  As      *)
(* claimed: whatever the writer does.                                      *)
(***************************************************************************)
C7_ExplicitWithGlobalTok ==
    /\ Ran /\ Len(op.args) >= 2 /\ ~isFlag(op.args[2])
    /\ (ShownVersionTok(From(op.args, 2)) \/ ShownHelpTok(From(op.args, 2)))

C8_UserCommandFirst ==
    \A n \in {"help", "version"} :
        (Ran /\ op.args = <<"testapp", n>> /\ FirstNamed(n) # "nil") =>
            /\ Invoked = <<FirstNamed(n)>>
            /\ parses = <<[cmd |-> FirstNamed(n), args |-> <<>>]>>

(***************************************************************************)
(* C9: when Program.HelpCommand (VersionCommand) is set to a command with  *)
(* an action, RunContext(ctx, [prog, "help"]) (or "version") executes that *)
(* command's action, with the built-in hidden and with it not hidden.      *)
(* Stated for a program with no registered command of that name.  The code *)
(* never executes it: hidden, the name is unknown; not hidden, the         *)
(* built-in behaviour is performed.                                        *)
(***************************************************************************)
C9_CustomCommandRuns ==
    /\ (Ran /\ op.args = <<"testapp", "help">> /\ prog.HelpCommand # "nil"
            /\ FirstNamed("help") = "nil")
        => Invoked = <<prog.HelpCommand>>
    /\ (Ran /\ op.args = <<"testapp", "version">> /\ prog.VersionCommand # "nil"
            /\ FirstNamed("version") = "nil")
        => Invoked = <<prog.VersionCommand>>

(***************************************************************************)
(* C10: Program.Get(name) returns the first user-registered command, in    *)
(* insertion order, whose Name equals name, whatever the name and the hide *)
(* toggles; otherwise, for "help" ("version") with HideHelpCommand         *)
(* (HideVersionCommand) false, the custom HelpCommand (VersionCommand) if  *)
(* set, else a built-in command of that name; otherwise nil.               *)
(***************************************************************************)
C10_GetFallbackChain ==
    op.kind = "get" =>
        LET n == op.name
            users == {i \in Registered : Cmd(prog.Commands[i]).Name = n}
        IN  IF users # {}
            THEN /\ \E i \in users : /\ ret.cmd = prog.Commands[i]
                                     /\ \A j \in users : i <= j
            ELSE IF n = "help" /\ ~prog.HideHelpCommand
            THEN IF prog.HelpCommand # "nil"
                 THEN ret.cmd = prog.HelpCommand
                 ELSE ret.cmd \in AllCmdIds \ CmdIds /\ Cmd(ret.cmd) = DefaultHelpCommand
            ELSE IF n = "version" /\ ~prog.HideVersionCommand
            THEN IF prog.VersionCommand # "nil"
                 THEN ret.cmd = prog.VersionCommand
                 ELSE ret.cmd \in AllCmdIds \ CmdIds /\ Cmd(ret.cmd) = DefaultVersionCommand
            ELSE ret.cmd = "nil"

\* C10's case: a registered "help" is returned although the built-in is not
\* hidden and a custom HelpCommand is set
C10_Witness ==
    /\ op.kind = "get" /\ op.name = "help"
    /\ prog.Commands = <<"uhelp", "uversion">>
    /\ ~prog.HideHelpCommand /\ prog.HelpCommand = "chelp"
    /\ ret.cmd = "uhelp"

(***************************************************************************)
(* C11: RunContext(ctx, [prog, "help", X]) where X resolves to no command  *)
(* (not registered, and not a non-hidden reserved name) writes             *)
(* "help: unknown command: X" to the output, returns the command-not-found *)
(* error and invokes no action.  As claimed: whatever the writer does and  *)
(* whatever the hide toggle of the help command.                           *)
(***************************************************************************)
C11_HelpWithUnknownName ==
    Ran /\ Len(op.args) = 3 /\ op.args[2] = "help" /\ get(prog, op.args[3]) = "nil"

C11_HelpUnknownName ==
    C11_HelpWithUnknownName =>
        /\ HasLine(Sink, "help: unknown command: " \o op.args[3])
        /\ ret = Errorf("unknown command: " \o op.args[3])
        /\ calls = <<>>

\* C11 as amended: with the built-in help command not hidden and X not a
\* global flag token the program shows, no command parses or runs; the line
\* is the one thing written and the command-not-found error is returned when
\* the writer takes the write, and when the write fails its error is
\* returned and nothing is written
C11_HelpUnknownUnlessWriteFails ==
    ( /\ C11_HelpWithUnknownName /\ ~prog.HideHelpCommand
      /\ ~ShownVersionTok(<<op.args[3]>>) /\ ~ShownHelpTok(<<op.args[3]>>) ) =>
        /\ calls = <<>> /\ parses = <<>>
        /\ Accepts => /\ Sink = <<"help: unknown command: " \o op.args[3]>>
                      /\ ret = Errorf("unknown command: " \o op.args[3])
        /\ ~Accepts => ret = ErrWrite /\ NothingWritten

\* C11's case: help for a name nobody registered
C11_Witness ==
    /\ C11_HelpWithUnknownName /\ ~prog.HideHelpCommand /\ Accepts
    /\ op.args = <<"testapp", "help", "nope">>
    /\ prog.Commands = <<"init", "build">>
    /\ Sink = <<"help: unknown command: nope">>
    /\ ret = Errorf("unknown command: nope") /\ calls = <<>>

(***************************************************************************)
(* C12: with the built-in help command not hidden,                         *)
(* RunContext(ctx, [prog, "help", C.Name]) for a registered command C      *)
(* prints C's own usage (its one-line and long description) to the         *)
(* program's output, returns nil and does not invoke C's action; with no   *)
(* following argument it prints the full program usage and returns nil.    *)
(* Stated for commands of unique names.  As claimed: whatever the writer   *)
(* does.                                                                   *)
(***************************************************************************)
C12_HelpNamed(c) ==
    /\ Ran /\ ~prog.HideHelpCommand /\ UniqueNames
    /\ op.args = <<"testapp", "help", Cmd(c).Name>>

C12_HelpAlone == Ran /\ ~prog.HideHelpCommand /\ op.args = <<"testapp", "help">>

C12_HelpCommandPrints ==
    /\ \A i \in Registered :
          C12_HelpNamed(prog.Commands[i]) =>
              /\ ret = nil
              /\ calls = <<>>
              /\ HasLine(Sink, Cmd(prog.Commands[i]).Usage)
              /\ Cmd(prog.Commands[i]).Description # "" =>
                    HasLine(Sink, Cmd(prog.Commands[i]).Description)
    /\ C12_HelpAlone => ret = nil /\ HasLine(Sink, "USAGE:")

\* C12 as amended: no command parses or runs; when the writer takes the
\* write the command's usage, headed by the application name, (the program
\* usage) is the one thing written and nil is returned; when the write fails
\* nothing is written, and the program usage's write error is returned
C12_HelpPrintsUnlessWriteFails ==
    /\ \A i \in Registered :
          LET c == prog.Commands[i] IN
          C12_HelpNamed(c) =>
              /\ calls = <<>> /\ parses = <<>>
              /\ Accepts =>
                    /\ ret = nil
                    /\ Sink = CommandUsageLines(World, c)
                    /\ Sink[1] = "Usage: testapp " \o Cmd(c).Name \o " [options]"
                    /\ Sink[3] = Cmd(c).Usage
                    /\ Cmd(c).Description # "" => Sink[5] = Cmd(c).Description
              /\ ~Accepts => NothingWritten
    /\ C12_HelpAlone =>
          /\ calls = <<>> /\ parses = <<>>
          /\ Accepts => ret = nil /\ Sink = UsageLines(prog) /\ HasLine(Sink, "USAGE:")
          /\ ~Accepts => ret = ErrWrite /\ NothingWritten

\* C12's case: help for a registered command that has a long description
C12_Witness ==
    /\ C12_HelpNamed("init") /\ Accepts
    /\ prog.Commands = <<"init", "build">>
    /\ ret = nil /\ calls = <<>>
    /\ Sink[1] = "Usage: testapp init [options]"
    /\ HasLine(Sink, "Initialize") /\ HasLine(Sink, "Initialize the project")
    /\ ~HasLine(Sink, "USAGE:")

(***************************************************************************)
(* C13: when the lookup of the command token fails, RunContext prints a    *)
(* message followed by the full program usage and returns an error: for an *)
(* explicit token "Unknown command: <name>" and the command-not-found      *)
(* error, for the name of the default-command branch                       *)
(* "Default command '<name>' not found" and the default-command-not-found  *)
(* error; no action is invoked.  The lookup takes place when the arguments *)
(* hold no global flag token the program shows.  As claimed: whatever the  *)
(* writer does.                                                            *)
(***************************************************************************)
C13_ExplicitLookupFails ==
    /\ Ran /\ Len(op.args) >= 2 /\ ~isFlag(op.args[2])
    /\ get(prog, op.args[2]) = "nil"
    /\ ~ShownVersionTok(From(op.args, 2)) /\ ~ShownHelpTok(From(op.args, 2))

C13_DefaultLookupFails ==
    /\ Ran /\ NoCommand(op.args) /\ prog.DefaultCommand # ""
    /\ get(prog, prog.DefaultCommand) = "nil"
    /\ ~ShownVersionTok(From(op.args, 1)) /\ ~ShownHelpTok(From(op.args, 1))

\* the message, the blank line after it and the usage are what was written
C13_Reported(msg) == Sink = <<msg, "">> \o UsageLines(prog) /\ HasLine(Sink, "USAGE:")

C13_NotFoundReported ==
    /\ C13_ExplicitLookupFails =>
          /\ C13_Reported("Unknown command: " \o op.args[2])
          /\ ret = Errorf("unknown command: " \o op.args[2])
          /\ calls = <<>>
    /\ C13_DefaultLookupFails =>
          /\ C13_Reported("Default command '" \o prog.DefaultCommand \o "' not found")
          /\ ret = Errorf("default command not found: " \o prog.DefaultCommand)
          /\ calls = <<>>

\* C13 as amended: no command parses or runs; the message and the usage are
\* written and the error of the kind returned when the writer takes the
\* writes, and when a write fails its error is returned and nothing is
\* written
C13_NotFoundUnlessWriteFails ==
    /\ C13_ExplicitLookupFails =>
          /\ calls = <<>> /\ parses = <<>>
          /\ Accepts => /\ C13_Reported("Unknown command: " \o op.args[2])
                        /\ ret = Errorf("unknown command: " \o op.args[2])
          /\ ~Accepts => ret = ErrWrite /\ NothingWritten
    /\ C13_DefaultLookupFails =>
          /\ calls = <<>> /\ parses = <<>>
          /\ Accepts =>
                /\ C13_Reported("Default command '" \o prog.DefaultCommand \o "' not found")
                /\ ret = Errorf("default command not found: " \o prog.DefaultCommand)
          /\ ~Accepts => ret = ErrWrite /\ NothingWritten

\* C13's case: the default command is not registered and flags are given
C13_Witness ==
    /\ C13_DefaultLookupFails /\ Accepts
    /\ op.args = <<"testapp", "-port", "3000">>
    /\ prog.Commands = <<>> /\ prog.DefaultCommand = "init"
    /\ Sink[1] = "Default command 'init' not found" /\ HasLine(Sink, "USAGE:")
    /\ ret = Errorf("default command not found: init")
    /\ ret # Errorf("unknown command: init")

(***************************************************************************)
(* C14: when a built-in reserved command is hidden (HideVersionCommand,    *)
(* resp. HideHelpCommand) and no user command holds that name,             *)
(* RunContext(ctx, [prog, "version"]) (resp. [prog, "help"]) returns a     *)
(* non-nil error and performs no built-in version (help) behaviour: what   *)
(* is written is neither the version line nor the usage alone, it is the   *)
(* unknown-command report; no command parses or runs, a custom             *)
(* VersionCommand (HelpCommand) included.                                  *)
(***************************************************************************)
C14_HiddenName(n) ==
    /\ Ran /\ op.args = <<"testapp", n>> /\ FirstNamed(n) = "nil"
    /\ IF n = "version" THEN prog.HideVersionCommand ELSE prog.HideHelpCommand

C15_HiddenFlagAlone ==
    /\ Ran /\ prog.DefaultCommand = ""
    /\ \/ prog.HideVersionFlag /\ op.args = <<"testapp", "-v">>
       \/ prog.HideHelpFlag /\ op.args = <<"testapp", "-h">>

RanCommand == op.kind = "cmd"

\* what the option parser makes of the arguments of the last operation on
\* command c, its bound variables holding their defaults
Outcome(c) == Parse(Cmd(c).Flags, op.args, Defaults(c))

\* what the command's output received
CommandSink(c) == wr[CommandOutput(World, c)]

(***************************************************************************)
(* C17: Command.RunContext(ctx, ["-h"]) on a command that defines no -h    *)
(* flag of its own: if HideHelpFlag is true it returns flag.ErrHelp itself *)
(* and writes nothing; if HideHelpFlag is false it returns nil and writes  *)
(* the command's usage, which begins "Usage:", to the command's output,    *)
(* nil also when a bound action would have returned an error: the action   *)
(* is not invoked.  An output that refuses every write receives nothing.   *)
(***************************************************************************)
C17_HelpAsked(c) ==
    RanCommand /\ op.name = c /\ op.args = <<"-h">> /\ Formal(Cmd(c).Flags, "h") = 0

C17_CommandHelpFlag ==
    \A c \in DirectCmds :
        C17_HelpAsked(c) =>
            /\ calls = <<>>
            /\ Cmd(c).HideHelpFlag => ret = ErrHelp /\ NothingWritten
            /\ ~Cmd(c).HideHelpFlag =>
                  /\ ret = nil
                  /\ cout[c] # "bad" =>
                        /\ CommandSink(c) = CommandUsageLines(World, c)
                        /\ CommandSink(c)[1] \in
                              { "Usage: " \o Cmd(c).Name \o " [options]",
                                "Usage: testapp " \o Cmd(c).Name \o " [options]" }
                  /\ \A w \in Writers \ {CommandOutput(World, c)} : wr[w] = <<>>

\* C17's case: help asked of a command whose action fails
C17_Witness ==
    /\ C17_HelpAsked("deploy") /\ cout["deploy"] = "buf" /\ appName["deploy"] = ""
    /\ Cmd("deploy").Action = "fail" /\ ~Cmd("deploy").HideHelpFlag
    /\ ret = nil /\ calls = <<>>
    /\ wr["buf"][1] = "Usage: deploy [options]"

(***************************************************************************)
(* C18: in Command.RunContext, if parsing succeeded or ended in a          *)
(* suppressed help request (help not hidden, -h given), and an action is   *)
(* bound, the action is invoked with (ctx, this command) and its result is *)
(* returned as the command's result.  As claimed: the help request         *)
(* included.                                                               *)
(***************************************************************************)
C18_ActionRan(c) ==
    /\ Invoked = <<c>>
    /\ calls[1].ctx = op.ctx
    /\ calls[1].vals = Outcome(c).vals
    /\ ret = ActionResult(c)

C18_ActionAfterParseOrHelp ==
    \A c \in DirectCmds :
        ( /\ RanCommand /\ op.name = c /\ Cmd(c).Action # "none"
          /\ \/ Outcome(c).err = nil
             \/ Outcome(c).err = ErrHelp /\ ~Cmd(c).HideHelpFlag )
        => C18_ActionRan(c)

\* C18 as amended: the action is invoked, once, with the caller's ctx and
\* this command, and its result returned when parsing succeeded; after a
\* suppressed help request the action is not invoked and nil is returned
C18_ActionAfterParseOnly ==
    \A c \in DirectCmds :
        (RanCommand /\ op.name = c /\ Cmd(c).Action # "none") =>
            /\ Outcome(c).err = nil => C18_ActionRan(c)
            /\ (Outcome(c).err = ErrHelp /\ ~Cmd(c).HideHelpFlag) =>
                  calls = <<>> /\ ret = nil

\* C18's case: flags parsed, the action invoked with the caller's context,
\* its error returned
C18_Witness ==
    /\ RanCommand /\ op.name = "deploy" /\ op.ctx = "ctx1"
    /\ op.args = <<"-port", "3000">>
    /\ Invoked = <<"deploy">> /\ calls[1].ctx = "ctx1" /\ calls[1].vals.port = 3000
    /\ ret = Errorf("action failed")

(***************************************************************************)
(* C19: when parsing succeeds, the result of Command.RunContext, and of    *)
(* the Program.RunContext that delegates to it, is exactly the value the   *)
(* bound action returned (the same error, or nil); when no action is       *)
(* bound the result is nil.                                                *)
(***************************************************************************)
C19_Delegated == op.kind \in {"run", "cmd"} /\ Len(parses) = 1

C19_ActionResultVerbatim ==
    C19_Delegated =>
        LET c == parses[1].cmd IN
        Parse(Cmd(c).Flags, parses[1].args, Defaults(c)).err = nil =>
            /\ Cmd(c).Action # "none" => ret = ActionResult(c) /\ Invoked = <<c>>
            /\ Cmd(c).Action = "fail" => ret = Errorf("action failed")
            /\ Cmd(c).Action = "ok" => ret = nil
            /\ Cmd(c).Action = "none" => ret = nil /\ calls = <<>>

\* C19's case: the program delegates to a command whose action fails
C19_Witness ==
    /\ Ran /\ op.args = <<"testapp", "build", "-port=3000">>
    /\ parses = <<[cmd |-> "build", args |-> <<"-port=3000">>]>>
    /\ Invoked = <<"build">>
    /\ ret = Errorf("action failed")

(***************************************************************************)
(* C20: when the option parser of Command.RunContext fails on the          *)
(* arguments (unknown flag or malformed value, not a help request), that   *)
(* failure is returned as it is, a non-nil error, and the bound action is  *)
(* not invoked, for both settings of HideHelpFlag.                         *)
(***************************************************************************)
C20_ParseFails(c) ==
    RanCommand /\ op.name = c /\ Outcome(c).err \notin {nil, ErrHelp}

C20_ParseErrorReturned ==
    \A c \in DirectCmds :
        C20_ParseFails(c) =>
            /\ ret = Outcome(c).err
            /\ ret # nil
            /\ calls = <<>>

\* C20's case: an unknown flag after a well-formed one, help hidden
C20_Witness ==
    /\ C20_ParseFails("build") /\ Cmd("build").HideHelpFlag
    /\ op.args = <<"-port=3000", "--version">>
    /\ ret = Errorf("flag provided but not defined: -version")
    /\ calls = <<>>

(***************************************************************************)
(* C21: the dispatcher and the command never replace or inspect the        *)
(* context: the action invoked through Program.RunContext(ctx, ...) or     *)
(* Command.RunContext(ctx, ...) receives the ctx value the caller passed   *)
(* and the Command that was resolved (by Get for the command name or the   *)
(* default command; the receiver of a direct call).                        *)
(***************************************************************************)
\* the name the dispatcher resolves: argv[1], or the default command
C21_ResolvedName == IF NoCommand(op.args) THEN prog.DefaultCommand ELSE op.args[2]

C21_ContextAndCommandPassed ==
    /\ Ran =>
          \A i \in DOMAIN calls :
              /\ calls[i].ctx = op.ctx
              /\ calls[i].cmd = get(prog, C21_ResolvedName)
              /\ calls[i].cmd = parses[1].cmd
              /\ appName[calls[i].cmd] = prog.Name
              /\ cout[calls[i].cmd] = Output(prog)
    /\ RanCommand =>
          \A i \in DOMAIN calls : calls[i].ctx = op.ctx /\ calls[i].cmd = op.name

\* C21's case: a context other than the background one reaches the action
\* of the second of two commands
C21_Witness ==
    /\ Ran /\ op.ctx = "ctx1" /\ op.args = <<"testapp", "build">>
    /\ prog.Commands = <<"init", "build">>
    /\ Len(calls) = 1 /\ calls[1].ctx = "ctx1" /\ calls[1].cmd = "build"

(***************************************************************************)
(* C22: the default command governs only the no-explicit-command branch:   *)
(* whenever argv[1] exists and does not begin with '-', the default        *)
(* command's action is not executed on account of being the default and    *)
(* its bound variables are not written, whether argv[1] names another      *)
(* registered command, a reserved built-in or an unknown command.  Stated  *)
(* for an argv[1] other than the default command's name, for every         *)
(* command of that name.                                                   *)
(***************************************************************************)
C22_ExplicitOther ==
    /\ Ran /\ Len(op.args) >= 2 /\ ~isFlag(op.args[2])
    /\ prog.DefaultCommand # "" /\ op.args[2] # prog.DefaultCommand

C22_DefaultOnlyWithoutCommand ==
    C22_ExplicitOther =>
        \A c \in CmdIds :
            Cmd(c).Name = prog.DefaultCommand =>
                /\ \A i \in DOMAIN calls : calls[i].cmd # c
                /\ \A i \in DOMAIN parses : parses[i].cmd # c
                /\ vals[c] = Defaults(c)

\* C22's case: another registered command is named, with a flag the default
\* command has too
C22_Witness ==
    /\ C22_ExplicitOther /\ prog.DefaultCommand = "init"
    /\ prog.Commands = <<"init", "build">>
    /\ op.args = <<"testapp", "build", "-port=3000">>
    /\ Invoked = <<"build">> /\ vals["build"].port = 3000
    /\ vals["init"] = Defaults("init")

(***************************************************************************)
(* Vocabulary of the dispatch: what Program.RunContext resolved.           *)
(***************************************************************************)
\* the residual arguments: argv[1:] on the default-command branch, argv[2:]
\* after an explicit command name
Residual ==
    IF NoCommand(op.args)
    THEN (IF Len(op.args) >= 2 THEN From(op.args, 1) ELSE <<>>)
    ELSE From(op.args, 2)

\* the residual argument at i is a version (help) token the program shows
VersionTokAt(i) == ~prog.HideVersionFlag /\ Residual[i] \in {"-v", "--version"}

HelpTokAt(i) == ~prog.HideHelpFlag /\ Residual[i] \in {"-h", "--help"}

\* the dispatch ends before the delegation to a command
ShortCircuit ==
    \/ NoCommand(op.args) /\ prog.DefaultCommand = ""
    \/ \E i \in DOMAIN Residual : VersionTokAt(i) \/ HelpTokAt(i)
    \/ C21_ResolvedName = "version" /\ ~prog.HideVersionCommand
    \/ C21_ResolvedName = "help" /\ ~prog.HideHelpCommand
    \/ get(prog, C21_ResolvedName) = "nil"

(***************************************************************************)
(* C24: in every dispatch Program.RunContext invokes at most one command   *)
(* action, and only through the final delegation step: every short-circuit *)
(* outcome (usage printed for no command, global version/help flag,        *)
(* built-in version/help command, help for a named command, unknown        *)
(* command, default command not found) invokes no action and parses no     *)
(* command.                                                                *)
(***************************************************************************)
C24_AtMostOneAction ==
    Ran =>
        /\ Len(calls) <= 1 /\ Len(parses) <= 1
        /\ ShortCircuit => calls = <<>> /\ parses = <<>>
        /\ calls # <<>> =>
              /\ ~ShortCircuit
              /\ parses = <<[cmd |-> get(prog, C21_ResolvedName), args |-> Residual]>>
              /\ calls[1].cmd = parses[1].cmd

\* C24's case: help for a named command configures the command and prints
\* its usage without invoking it
C24_Witness ==
    /\ Ran /\ ShortCircuit /\ Accepts
    /\ op.args = <<"testapp", "help", "init">> /\ prog.Commands = <<"init", "build">>
    /\ appName["init"] = "testapp" /\ Sink[1] = "Usage: testapp init [options]"
    /\ calls = <<>> /\ parses = <<>>

(***************************************************************************)
(* C25: the global-flag scan decides by argument order, not by flag kind:  *)
(* when the residual arguments hold both a version token and a help token  *)
(* the program shows, the one that occurs first determines the outcome     *)
(* (version line or full usage); a hidden token is skipped and does not    *)
(* stop the scan; and the scan matches tokens placed after a "--"          *)
(* terminator or in the value position of another flag.  The outcome is    *)
(* what a writer that takes the write receives.                            *)
(***************************************************************************)
C25_Scanned == Ran /\ ~(NoCommand(op.args) /\ prog.DefaultCommand = "")

C25_FirstShownTokenDecides ==
    \A k \in 1..(MaxArgs + 1) :
        ( /\ C25_Scanned /\ k \in DOMAIN Residual
          /\ VersionTokAt(k) \/ HelpTokAt(k)
          /\ \A j \in 1..(k - 1) : ~VersionTokAt(j) /\ ~HelpTokAt(j) )
        => /\ calls = <<>> /\ parses = <<>>
           /\ Accepts => Sink = IF VersionTokAt(k) THEN <<VersionLine(prog)>>
                                                   ELSE UsageLines(prog)
           /\ ~Accepts => NothingWritten

\* C25's case: both tokens shown, the help token before the version token
C25_Witness ==
    /\ C25_Scanned /\ Accepts /\ ~prog.HideVersionFlag /\ ~prog.HideHelpFlag
    /\ op.args = <<"testapp", "--help", "-v">> /\ prog.DefaultCommand = "init"
    /\ Sink = UsageLines(prog) /\ Sink # <<VersionLine(prog)>>
    /\ calls = <<>>

(***************************************************************************)
(* C26: because the global-flag scan runs before command lookup,           *)
(* RunContext(ctx, [prog, X, ..., g]) with X an unregistered, non-reserved *)
(* command name and g a global flag token the program shows returns nil    *)
(* (printing the version line or the usage) and never reports the          *)
(* unknown-command error for X.  As claimed: whatever the writer does.     *)
(***************************************************************************)
C26_UnknownWithGlobalTok ==
    /\ Ran /\ Len(op.args) >= 3 /\ ~isFlag(op.args[2])
    /\ op.args[2] \notin {"help", "version"} /\ get(prog, op.args[2]) = "nil"
    /\ (ShownVersionTok(From(op.args, 2)) \/ ShownHelpTok(From(op.args, 2)))

C26_Unreported ==
    /\ ret # Errorf("unknown command: " \o op.args[2])
    /\ ~HasLine(Sink, "Unknown command: " \o op.args[2])

C26_GlobalTokHidesUnknown ==
    C26_UnknownWithGlobalTok =>
        /\ ret = nil
        /\ C26_Unreported
        /\ Sink \in {<<VersionLine(prog)>>, UsageLines(prog)}

\* C26 as amended: the unknown command is never reported; the version line
\* or the usage is printed and nil returned when the writer takes the write,
\* and when the write fails its error is returned and nothing is written
C26_GlobalTokHidesUnknownUnlessWriteFails ==
    C26_UnknownWithGlobalTok =>
        /\ C26_Unreported
        /\ calls = <<>> /\ parses = <<>>
        /\ Accepts => /\ ret = nil
                      /\ C5_Printed(From(op.args, 2))
                      /\ Sink \in {<<VersionLine(prog)>>, UsageLines(prog)}
        /\ ~Accepts => ret = ErrWrite /\ NothingWritten

\* C26's case: a version token after a name nobody registered
C26_Witness ==
    /\ C26_UnknownWithGlobalTok /\ Accepts
    /\ op.args = <<"testapp", "nope", "-v">> /\ prog.Commands = <<"init", "build">>
    /\ ret = nil /\ Sink = <<"testapp version 1.0.0">>

(***************************************************************************)
(* C27: when a global flag is hidden and a default command is configured,  *)
(* a -v/--version (resp. -h/--help) token in argv[1:] is not consumed by   *)
(* the dispatcher: no version line or program usage is printed by the      *)
(* dispatcher, the token is forwarded unchanged inside argv[1:] to the     *)
(* default command, and the dispatch result is exactly the result of that  *)
(* command's RunContext on those arguments.  Stated for the default        *)
(* branch (argv[1] begins with '-'), a default command that is registered, *)
(* and arguments holding no token the program shows.  The code breaks it   *)
(* for a default command named "version" or "help" while the built-in of   *)
(* that name is not hidden.                                                *)
(***************************************************************************)
\* the world before the call
InitialWorld ==
    [vals |-> [c \in AllCmdIds |-> Defaults(c)],
     appName |-> [c \in AllCmdIds |-> ""],
     cout |-> [c \in AllCmdIds |-> "nil"],
     wr |-> [w \in Writers |-> <<>>],
     parses |-> <<>>, calls |-> <<>>]

C27_HiddenTokToDefault ==
    /\ Ran /\ Len(op.args) >= 2 /\ isFlag(op.args[2])
    /\ prog.DefaultCommand # "" /\ FirstNamed(prog.DefaultCommand) # "nil"
    /\ ~ShownVersionTok(From(op.args, 1)) /\ ~ShownHelpTok(From(op.args, 1))
    /\ \E i \in DOMAIN From(op.args, 1) :
          From(op.args, 1)[i] \in {"-v", "--version", "-h", "--help"}

C27_HiddenTokForwarded ==
    C27_HiddenTokToDefault =>
        LET d == FirstNamed(prog.DefaultCommand)
            e == CommandRunContext(Get(InitialWorld, prog, prog.DefaultCommand).w,
                                   d, op.ctx, From(op.args, 1))
        IN  /\ parses = <<[cmd |-> d, args |-> From(op.args, 1)]>>
            /\ ret = e.ret
            /\ World = e.w
            /\ ~HasLine(Sink, VersionLine(prog)) /\ ~HasLine(Sink, "USAGE:")

(***************************************************************************)
(* C30: the two dispatcher variants (src/program.go, which ignores the     *)
(* results of its writes, and src/unnamed/part_001, which returns them)    *)
(* are observationally equivalent whenever writes to the output never      *)
(* fail: for every configuration and argv they write the same text,        *)
(* select the same command with the same residual arguments, and return    *)
(* nil or an error in the same cases, with the same error message.         *)
(***************************************************************************)
\* what the dispatcher of program.go does with the call just made
C30_Go == ProgramGo_RunContext(InitialWorld, prog, op.ctx, op.args)

C30_VariantsAgree ==
    (Ran /\ Accepts) =>
        /\ C30_Go.w.wr = wr
        /\ C30_Go.w.parses = parses
        /\ C30_Go.w.calls = calls
        /\ (C30_Go.ret = nil) <=> (ret = nil)
        /\ C30_Go.ret = ret
        /\ C30_Go.w = World

\* C30's case: both variants report an unknown command, with the usage
C30_Witness ==
    /\ Ran /\ Accepts /\ op.args = <<"testapp", "nope", "-port=3000">>
    /\ prog.Commands = <<"init", "build">>
    /\ ret = Errorf("unknown command: nope") /\ C30_Go.ret = ret
    /\ Sink[1] = "Unknown command: nope" /\ HasLine(Sink, "USAGE:")
    /\ C30_Go.w.wr = wr

(***************************************************************************)
(* C29: a failed parse in Command.RunContext is not atomic: when parsing   *)
(* fails at some argument after one or more well-formed flags, the error   *)
(* is returned and the action is not invoked, but the bound variables of   *)
(* the flags that precede the failing argument already hold their new      *)
(* values.  Stated for a first argument that sets a flag of the command.   *)
(***************************************************************************)
\* the parse of command c fails after its first argument
C29_FailsLater(c) == C20_ParseFails(c) /\ Len(op.args) >= 2

\* the first argument sets the int flag of command c, or its bool flag
C29_PortFirst(c) == op.args[1] = "-port=3000" /\ Formal(Cmd(c).Flags, "port") # 0

C29_VFirst(c) == op.args[1] = "-v" /\ Formal(Cmd(c).Flags, "v") # 0

\* the failing argument gave the int flag a value that is no number
C29_PortRefused == ret = Errorf("invalid value for flag -port")

\* as stated: the variables of the preceding flags hold their new values
C29_FailedParseKeepsWrites ==
    \A c \in DirectCmds :
        C29_FailsLater(c) =>
            /\ ret = Outcome(c).err /\ ret # nil
            /\ calls = <<>>
            /\ C29_PortFirst(c) => vals[c].port = 3000
            /\ C29_VFirst(c) => vals[c].v = TRUE

\* C29 amended: a variable the failing argument itself addresses holds what
\* the failed conversion stored, 0 for an int flag; every other variable of
\* a preceding flag holds its new value, and the state is changed either way
C29_FailedParseKeepsWritesOrZero ==
    \A c \in DirectCmds :
        C29_FailsLater(c) =>
            /\ ret = Outcome(c).err /\ ret # nil
            /\ calls = <<>>
            /\ C29_PortFirst(c) =>
                  /\ vals[c].port = IF C29_PortRefused THEN 0 ELSE 3000
                  /\ vals[c] # Defaults(c)
            /\ C29_VFirst(c) => vals[c].v = TRUE /\ vals[c] # Defaults(c)

\* C29's case: a flag is set, then a flag that lacks its argument fails
C29_Witness ==
    /\ C29_FailsLater("deploy") /\ op.args = <<"-v", "-port">>
    /\ ret = Errorf("flag needs an argument: -port")
    /\ calls = <<>>
    /\ vals["deploy"].v = TRUE /\ Defaults("deploy").v = FALSE
    /\ vals["deploy"].port = 8080

(***************************************************************************)
(* C23: option state is shared per Command, not scoped per dispatch: when  *)
(* two dispatches against the same Command are interleaved, there is an    *)
(* interleaving (parse of A, parse of B, action of A) in which A's action  *)
(* observes bound-variable values written from B's arguments; when         *)
(* dispatches run strictly one at a time, every action observes the values *)
(* produced by parsing its own dispatch's arguments.                       *)
(***************************************************************************)
\* dispatch i has run its action
C23_Acted(i) ==
    /\ inflight[i].pc = "returned"
    /\ Pending(inflight[i].cmd, inflight[i].r)

\* the values parsing the arguments of dispatch i produces
C23_OwnValues(i) ==
    Parse(Cmd(inflight[i].cmd).Flags, inflight[i].args, inflight[i].before).vals

\* a dispatch on its own observes its own values; one that another dispatch
\* was under way with observes, of each variable, its own value or one
\* written since
C23_ActionObservesSharedState ==
    \A i \in DOMAIN inflight :
        C23_Acted(i) =>
            /\ inflight[i].call \in DOMAIN calls
            /\ calls[inflight[i].call].vals = inflight[i].seen
            /\ inflight[i].alone => inflight[i].seen = C23_OwnValues(i)
            /\ \A k \in DOMAIN inflight[i].seen :
                  \E j \in i..Len(inflight) :
                      inflight[i].seen[k] =
                          Parse(Cmd(inflight[j].cmd).Flags, inflight[j].args,
                                inflight[j].before).vals[k]

\* C23's case: parse of A, parse of B, action of A, and A's action observes
\* the port B's arguments gave
C23_Witness ==
    /\ Len(inflight) = 2
    /\ inflight[1].args = <<"-port=3000">> /\ inflight[2].args = <<"-port=9000">>
    /\ C23_Acted(1) /\ inflight[2].pc = "parsed"
    /\ ~inflight[1].alone
    /\ Len(calls) = 1 /\ calls[1].vals.port = 9000
    /\ C23_OwnValues(1).port = 3000

(***************************************************************************)
(* C28: bound flag variables persist across sequential dispatches to the   *)
(* same command: after any sequence of successful dispatches, each bound   *)
(* variable equals the value supplied by the most recent dispatch that     *)
(* passed its flag, or its registered default if no dispatch ever passed   *)
(* it; a later dispatch that omits the flag does not reset the variable.   *)
(***************************************************************************)
\* the dispatches so far ran one at a time and each one's parse succeeded
C28_Sequential ==
    \A i \in DOMAIN inflight :
        inflight[i].pc = "returned" /\ inflight[i].alone /\ inflight[i].r.err = nil

RECURSIVE C28_Passed(_)
\* the arguments passed to the command so far, oldest first
C28_Passed(n) ==
    IF n = 0 THEN <<>> ELSE C28_Passed(n - 1) \o inflight[n].args

\* the port an argument supplies, -1 for none
C28_PortOf(t) ==
    CASE t = "-port=3000" -> 3000
      [] t = "-port=9000" -> 9000
      [] OTHER -> -1

\* the value most recently supplied for port, or its default
C28_LastPort(a) ==
    IF \E i \in DOMAIN a : C28_PortOf(a[i]) # -1
    THEN C28_PortOf(a[CHOOSE i \in DOMAIN a :
                        /\ C28_PortOf(a[i]) # -1
                        /\ \A j \in DOMAIN a : j > i => C28_PortOf(a[j]) = -1])
    ELSE 8080

C28_VariablesPersist ==
    \A c \in SharedCmds :
        C28_Sequential =>
            /\ vals[c].port = C28_LastPort(C28_Passed(Len(inflight)))
            /\ vals[c].v = (\E i \in DOMAIN C28_Passed(Len(inflight)) :
                                C28_Passed(Len(inflight))[i] = "-v")

\* C28's case: the first dispatch passes both flags, the second passes
\* none, and its action still finds what the first supplied
C28_Witness ==
    /\ Len(inflight) = 2 /\ C28_Sequential
    /\ inflight[1].args = <<"-port=3000", "-v">> /\ inflight[2].args = <<>>
    /\ Len(calls) = 2
    /\ calls[2].vals.port = 3000 /\ calls[2].vals.v = TRUE
    /\ vals["init"].port = 3000 /\ vals["init"].v = TRUE
    /\ Defaults("init").port = 8080 /\ Defaults("init").v = FALSE

====
